---- MODULE Spec2Model ----
(***************************************************************************)
(* A model of AdversarialTraining (src/adversarial_training.py): the       *)
(* constructor, the per-batch split / attack / recombine / backward loop   *)
(* of train(), the capped adversarial pass of test(), and step().          *)
(*                                                                         *)
(* The tensor library, the attack, the objective, the optimizer and the    *)
(* writer are collaborators: the model records the calls made to them.     *)
(* Python floats are IEEE-754 binary64; the two float operations that      *)
(* decide the split index (1 - fraction, fraction * N) are modelled        *)
(* bit-exactly on fixed-point numbers.                                     *)
(***************************************************************************)
EXTENDS Integers, Sequences, FiniteSets, TLC

\* ------------------------------------------------------------------------
\* binary64 arithmetic.  A value is a little-endian vector of Limbs limbs of
\* LimbBits bits each, counting units of 2^-FracBits (the top limb is the
\* integer part).  Every double used here (the requested fraction, its
\* complement, the product with a batch size) is a multiple of that unit,
\* so the vector is the double's exact value.
\* ------------------------------------------------------------------------
Precision == 53
LimbBits == 15
Limbs == 5
FracBits == 60

Base == 2 ^ LimbBits
Width == Limbs * LimbBits
LimbIx == 1..Limbs

Zero == [i \in LimbIx |-> 0]

\* the natural k < Base as an integer number of units
FromNat(k) == [i \in LimbIx |-> IF i = 1 THEN k ELSE 0]

\* bit i of a, bit 1 the least significant
Bit(a, i) == (a[((i - 1) \div LimbBits) + 1] \div (2 ^ ((i - 1) % LimbBits))) % 2

\* 2^s units
PowerOfTwo(s) ==
  [i \in LimbIx |-> IF i = (s \div LimbBits) + 1 THEN 2 ^ (s % LimbBits) ELSE 0]

Add(a, b) ==
  LET c[i \in 0..Limbs] == IF i = 0 THEN 0 ELSE (a[i] + b[i] + c[i - 1]) \div Base
  IN  [i \in LimbIx |-> (a[i] + b[i] + c[i - 1]) % Base]

\* a - b for a >= b
Sub(a, b) ==
  LET br[i \in 0..Limbs] == IF i = 0 THEN 0
                            ELSE IF a[i] - b[i] - br[i - 1] < 0 THEN 1 ELSE 0
  IN  [i \in LimbIx |-> (a[i] - b[i] - br[i - 1] + Base) % Base]

\* a * k for a natural k < Base
MulSmall(a, k) ==
  LET c[i \in 0..Limbs] == IF i = 0 THEN 0 ELSE (a[i] * k + c[i - 1]) \div Base
  IN  [i \in LimbIx |-> (a[i] * k + c[i - 1]) % Base]

\* floor(a / d) and whether the division left a remainder, for 0 < d < Base
DivSmall(a, d) ==
  LET r[i \in 1..(Limbs + 1)] ==
        IF i = Limbs + 1 THEN 0 ELSE (r[i + 1] * Base + a[i]) % d
  IN  [q |-> [i \in LimbIx |-> (r[i + 1] * Base + a[i]) \div d],
       inexact |-> r[1] # 0]

\* the number of significant bits of a
BitLen(a) ==
  IF a = Zero THEN 0
  ELSE LET top == CHOOSE i \in LimbIx : a[i] # 0 /\ \A j \in (i + 1)..Limbs : a[j] = 0
           len == CHOOSE k \in 1..LimbBits : 2 ^ (k - 1) <= a[top] /\ a[top] < 2 ^ k
       IN  (top - 1) * LimbBits + len

\* a with its d low bits cleared
ClearLow(a, d) ==
  [i \in LimbIx |->
     IF i * LimbBits <= d THEN 0
     ELSE IF (i - 1) * LimbBits >= d THEN a[i]
     ELSE LET s == 2 ^ (d - (i - 1) * LimbBits) IN (a[i] \div s) * s]

\* round to nearest, ties to even, at Precision significant bits; sticky
\* tells that a is itself the floor of an inexact value
RoundToDouble(a, sticky) ==
  LET d == BitLen(a) - Precision
  IN  IF d <= 0 THEN a
      ELSE LET rest == sticky \/ ClearLow(a, d - 1) # a
               up == Bit(a, d) = 1 /\ (rest \/ Bit(a, d + 1) = 1)
           IN  IF up THEN Add(ClearLow(a, d), PowerOfTwo(d)) ELSE ClearLow(a, d)

\* int(x) of a non-negative double: its integer part
Trunc(a) == a[Limbs]

One == PowerOfTwo(FracBits)

\* the double nearest to num / (den * 2^exp), the value a float literal or
\* expression of the caller denotes (num, den < Base, 0 <= exp <= FracBits)
ToDouble(num, den, exp) ==
  LET d == DivSmall(MulSmall(PowerOfTwo(FracBits - exp), num), den)
  IN  RoundToDouble(d.q, d.inexact)

LessEq(a, b) ==
  a = b \/ \E i \in LimbIx : a[i] < b[i] /\ \A j \in (i + 1)..Limbs : a[j] = b[j]

FlSub(a, b) == RoundToDouble(Sub(a, b), FALSE)

FlMulInt(a, n) == RoundToDouble(MulSmall(a, n), FALSE)


\* ------------------------------------------------------------------------
\* Values of the tensor library that the loop computes with.
\* ------------------------------------------------------------------------

\* a[:k] and a[k:]
Take(a, k) == SubSeq(a, 1, k)
Drop(a, k) == SubSeq(a, k + 1, Len(a))

RECURSIVE Sum(_)
Sum(a) == IF a = <<>> THEN 0 ELSE Head(a) + Sum(Tail(a))

\* A scalar of the tensor library is a fraction <<numerator, denominator>>;
\* a zero denominator is NaN (the mean of an empty tensor).
RatMul(p, q) == <<p[1] * q[1], p[2] * q[2]>>
RatAdd(p, q) == <<p[1] * q[2] + q[1] * p[2], p[2] * q[2]>>
RatEq(p, q) == p[2] # 0 /\ q[2] # 0 /\ p[1] * q[2] = q[1] * p[2]

Mean(a) == <<Sum(a), Len(a)>>

\* common.torch.classification_loss(logits, targets, reduction='none'): one
\* loss per example.  The library is not part of the sources; the value used
\* is the margin by which the target's logit misses the largest logit.
Largest(l) == CHOOSE v \in {l[j] : j \in DOMAIN l} : \A j \in DOMAIN l : l[j] <= v
ExampleLoss(l, t) == Largest(l) - l[t + 1]
ExampleLosses(logits, targets) ==
  [i \in 1..Len(logits) |-> ExampleLoss(logits[i], targets[i])]

\* common.torch.classification_loss(logits, targets): the mean over the batch
ClassificationLoss(logits, targets) == Mean(ExampleLosses(logits, targets))

\* torch.nn.functional.softmax(l): exp(l[j]) / sum.  The common denominator
\* is dropped and the base is 2: the entries keep their order.
Softmax(l) == [j \in DOMAIN l |-> 2 ^ l[j]]

\* torch.max(p, dim=1)[1]: the (0-based) index of the first largest entry
MaxIndex(p) ==
  (CHOOSE j \in DOMAIN p :
     /\ \A k \in DOMAIN p : p[k] <= p[j]
     /\ \A k \in DOMAIN p : k < j => p[k] < p[j]) - 1

Abs(v) == IF v < 0 THEN -v ELSE v
ClampMax(v, m) == IF v > m THEN m ELSE v

\* the distance without torch.abs
SuccessDistanceSigned(t, l) == t - MaxIndex(Softmax(l))

\* lines 139-141 and 233: clamp(abs(targets - max(softmax(logits))[1]), max=1)
SuccessDistance(t, l) == Abs(t - MaxIndex(Softmax(l)))
Success(targets, logits) ==
  [i \in 1..Len(logits) |-> ClampMax(SuccessDistance(targets[i], logits[i]), 1)]

\* common.numpy.concatenate(acc, new): new itself when acc is None
None == [none |-> TRUE, values |-> <<>>]
Concatenate(acc, new) == [none |-> FALSE, values |-> acc.values \o new]

\* ------------------------------------------------------------------------
\* The pieces of train() and test()
\* ------------------------------------------------------------------------

\* line 58: self.fraction = 1 - fraction
StoredFraction(f) == FlSub(One, f)

\* line 95: split = int(fraction * inputs.size(0))
SplitIndex(frac, n) == Trunc(FlMulInt(frac, n))

\* line 97: fraction = split / float(inputs.size(0))
EffectiveFraction(s, n) == <<s, n>>

\* lines 106-108: adversarial_inputs + adversarial_perturbations
Perturb(xs, ps) == [i \in 1..Len(xs) |-> [xs[i] EXCEPT !.delta = @ + ps[i]]]

\* lines 110-113
Recombine(clean, adversarial, n) ==
  IF Len(adversarial) < n THEN clean \o adversarial ELSE adversarial

\* the weighted sum taken also when there is no clean partition
BackwardLossAlwaysCombined(nadv, n, frac, clean_l, adversarial_l) ==
  RatAdd(RatMul(<<frac[2] - frac[1], frac[2]>>, clean_l), RatMul(frac, adversarial_l))

\* the adversarial loss taken also when there is a clean partition
BackwardLossAdversarialOnly(nadv, n, frac, clean_l, adversarial_l) == adversarial_l

\* lines 125-132: the loss handed to backward()
BackwardLoss(nadv, n, frac, clean_l, adversarial_l) ==
  IF nadv < n
  THEN RatAdd(RatMul(<<frac[2] - frac[1], frac[2]>>, clean_l),
              RatMul(frac, adversarial_l))
  ELSE adversarial_l

\* the cap tested with > in place of >=
CapReachedOffByOne(done, cap) == done > cap

\* line 215: the cap on the batches test() attacks
CapReached(done, cap) == done >= cap

Text(tag) == [kind |-> "add_text", tag |-> tag, step |-> 0]
Scalar(tag, gs) == [kind |-> "add_scalar", tag |-> tag, step |-> gs]
Images(tag, gs) == [kind |-> "add_images", tag |-> tag, step |-> gs]

\* lines 64-66
ConfigWrites ==
  <<Text("config/attack"), Text("config/objective"), Text("config/fraction")>>

\* the writes of the last batch with the images ahead of the scalars
TrainWritesImagesFirst(nadv, n, gs) ==
  (IF nadv < n THEN <<Images("train/images", gs)>> ELSE <<>>)
  \o <<Images("train/adversarial_images", gs)>>
  \o (IF nadv < n
      THEN <<Scalar("train/loss", gs), Scalar("train/error", gs),
             Scalar("train/confidence", gs)>>
      ELSE <<>>)
  \o <<Scalar("train/adversarial_success", gs), Scalar("train/adversarial_loss", gs),
       Scalar("train/adversarial_error", gs),
       Scalar("train/adversarial_confidence", gs)>>

\* lines 150-189: what the last batch of an epoch writes
TrainWrites(nadv, n, gs) ==
  (IF nadv < n
   THEN <<Scalar("train/loss", gs), Scalar("train/error", gs),
          Scalar("train/confidence", gs)>>
   ELSE <<>>)
  \o <<Scalar("train/adversarial_success", gs), Scalar("train/adversarial_loss", gs),
       Scalar("train/adversarial_error", gs),
       Scalar("train/adversarial_confidence", gs)>>
  \o (IF nadv < n THEN <<Images("train/images", gs)>> ELSE <<>>)
  \o <<Images("train/adversarial_images", gs)>>

\* lines 239-245
TestWrites(gs) ==
  <<Scalar("test/adversarial_loss", gs), Scalar("test/adversarial_error", gs),
    Scalar("test/adversarial_confidence", gs), Scalar("test/adversarial_success", gs),
    Scalar("test/adversarial_norm", gs), Scalar("test/adversarial_objective", gs)>>

Call(name, m, size) == [op |-> name, mode |-> m, n |-> size]

\* ------------------------------------------------------------------------
\* Bounds
\* ------------------------------------------------------------------------
MaxBatch == 5          \* largest batch a loader yields
MaxBatches == 2        \* most batches in a training source
MaxTestBatches == 11   \* most batches in a test source (the cap is 10)
MaxCalls == 2          \* calls of train / test / step after construction
MaxClasses == 3        \* classes of the classifier, in SpecSuccess
MaxLogit == 1          \* largest logit, in SpecSuccess

\* ------------------------------------------------------------------------
\* State
\* ------------------------------------------------------------------------
VARIABLES
  request,        \* the constructor's fraction argument: num / (den * 2^exp)
  trainset,       \* the training loader: the batches it can yield
  testset,        \* the test loader: the batches it can yield
  model,          \* the classifier: the logits it can return
  attack,         \* the attack: the perturbation it returns per example
  fraction,       \* self.fraction, a double
  max_batches,    \* self.max_batches
  mode,           \* the model's mode: "train" or "eval"
  writer,         \* the calls made to self.writer, oldest first
  pc,             \* where control is
  op,             \* the method the caller invoked: "train", "test", "step"
  epoch,          \* its argument
  ncalls,         \* the calls made so far
  entry,          \* Len(writer) when the caller's call began
  batches,        \* train(): len(self.trainset); test(): len(self.testset)
  b,              \* the loop counter b
  batch,          \* the (inputs, targets) pair as the loader yielded it
  inputs,         \* the local inputs (reassigned at lines 111 / 113 / 227)
  targets,        \* the local targets
  split,          \* the local split
  frac,           \* the local fraction after line 97
  adversarial_inputs,
  logits,
  clean_loss,
  adversarial_loss,
  loss,
  cl_losses,      \* cl_errors and cl_confidences grow in step with it
  losses,         \* errors and confidences (and norms, objectives) likewise
  successes,
  calls,          \* the collaborator calls of the current loop iteration
  yielded,        \* the batches the loader has handed to the for loop
  attacked        \* test(): the positions (from 0) of the batches attacked

persistent == <<request, trainset, testset, model, attack, fraction, max_batches>>
control_but_pc == <<op, epoch, ncalls, entry>>
control == <<pc, control_but_pc>>
locals == <<batches, b, batch, inputs, targets, split, frac, adversarial_inputs,
            logits, clean_loss, adversarial_loss, loss, cl_losses, losses,
            successes, calls, yielded, attacked>>
vars == <<persistent, control, locals, mode, writer>>

NoBatch == [inputs |-> <<>>, targets |-> <<>>]
NaN == <<0, 0>>

\* the locals of a method before its loop starts (lines 76-87, 206-213)
FreshLocals(len) ==
  /\ batches' = len
  /\ b' = 0
  /\ batch' = NoBatch
  /\ inputs' = <<>>
  /\ targets' = <<>>
  /\ split' = 0
  /\ frac' = <<0, 1>>
  /\ adversarial_inputs' = <<>>
  /\ logits' = <<>>
  /\ clean_loss' = NaN
  /\ adversarial_loss' = NaN
  /\ loss' = NaN
  /\ cl_losses' = None
  /\ losses' = None
  /\ successes' = None
  /\ yielded' = 0
  /\ attacked' = <<>>

\* the fractions a caller may pass: 0, 2^-54, 1/4, 1/2, 4/5, 1 and 3/2
Requests ==
  { [num |-> 0, den |-> 1, exp |-> 0], [num |-> 1, den |-> 1, exp |-> 54],
    [num |-> 1, den |-> 4, exp |-> 0], [num |-> 1, den |-> 2, exp |-> 0],
    [num |-> 4, den |-> 5, exp |-> 0], [num |-> 1, den |-> 1, exp |-> 0],
    [num |-> 3, den |-> 2, exp |-> 0] }

RequestValue(r) == ToDouble(r.num, r.den, r.exp)

\* lines 43-44: assert fraction > 0; assert fraction <= 1
Accepted(r) == RequestValue(r) # Zero /\ LessEq(RequestValue(r), One)

\* a loader: the numbers of batches it can hold, and the sizes and the
\* labels of the batches it can yield
Loader(lens, sizes, labels) == [lens |-> lens, sizes |-> sizes, labels |-> labels]

\* the batches a loader can yield: example i of a batch is input i, unperturbed
Yields(loader) ==
  UNION { { [inputs |-> [i \in 1..n |-> [x |-> i, delta |-> 0]], targets |-> t]
            : t \in [1..n -> loader.labels] } : n \in loader.sizes }

\* the logits the model can return for a batch of inputs
Outputs(m, xs) ==
  { l \in [1..Len(xs) -> m.clean \cup m.perturbed] :
      \A i \in 1..Len(xs) :
        l[i] \in (IF xs[i].delta = 0 THEN m.clean ELSE m.perturbed) }

\* the state after __init__ (lines 43-66) for given collaborators
Constructed(r, train, test, m, a) ==
  /\ request = r
  /\ trainset = train
  /\ testset = test
  /\ model = m
  /\ attack = a
  /\ fraction = StoredFraction(RequestValue(r))
  /\ max_batches = 10
  /\ mode = "train"
  /\ writer = ConfigWrites
  /\ pc = "idle"
  /\ op = "none"
  /\ epoch = 0
  /\ ncalls = 0
  /\ entry = Len(ConfigWrites)
  /\ batches = 0
  /\ b = 0
  /\ batch = NoBatch
  /\ inputs = <<>>
  /\ targets = <<>>
  /\ split = 0
  /\ frac = <<0, 1>>
  /\ adversarial_inputs = <<>>
  /\ logits = <<>>
  /\ clean_loss = NaN
  /\ adversarial_loss = NaN
  /\ loss = NaN
  /\ cl_losses = None
  /\ losses = None
  /\ successes = None
  /\ calls = <<>>
  /\ yielded = 0
  /\ attacked = <<>>

\* A classifier with two classes on which the attack succeeds: it answers
\* the target class 0 on a clean input and class 1 on a perturbed one.
InitWith(requests) ==
  \E r \in {q \in requests : Accepted(q)} :
    Constructed(r, Loader(0..MaxBatches, 1..MaxBatch, {0}),
                Loader(0..MaxTestBatches, {1}, {0}),
                [clean |-> {<<1, 0>>}, perturbed |-> {<<0, 1>>}], 1)

Init == InitWith(Requests)

\* ------------------------------------------------------------------------
\* Actions
\* ------------------------------------------------------------------------

\* the mode left as it was
ModelEvalSkipped(m) == m

\* lines 104, 204 and 116: model.eval() and model.train()
ModelEval(m) == "eval"
ModelTrain(m) == "train"

\* the caller invokes a method with the next epoch number
Enter(method) ==
  /\ pc = "idle"
  /\ ncalls < MaxCalls
  /\ op' = method
  /\ epoch' = ncalls
  /\ ncalls' = ncalls + 1
  /\ entry' = Len(writer)

\* the method returns to the caller: its locals are gone
Return ==
  /\ pc' = "idle"
  /\ FreshLocals(0)
  /\ calls' = <<>>

\* lines 76-87: train(epoch) up to its loop
TrainEntry ==
  /\ pc' = "train_loop"
  /\ \E len \in trainset.lens : FreshLocals(len)
  /\ calls' = <<>>
  /\ UNCHANGED <<persistent, mode, writer>>

\* lines 202-213: test(epoch) up to its loop
TestEntry ==
  /\ pc' = "test_loop"
  /\ \E len \in testset.lens : FreshLocals(len)
  /\ mode' = ModelEval(mode)
  /\ calls' = <<Call("super.test", mode, 0), Call("model.eval", ModelEval(mode), 0)>>
  /\ UNCHANGED <<persistent, writer>>

CallTrain == Enter("train") /\ TrainEntry

CallTest == Enter("test") /\ TestEntry

\* line 263
CallStep == Enter("step") /\ TrainEntry

\* lines 88-108: fetch a batch, split it, attack the adversarial part
TrainBatchAttack ==
  /\ pc = "train_loop"
  /\ b < batches
  /\ \E yb \in Yields(trainset) :
       LET n == Len(yb.inputs)
           s == SplitIndex(fraction, n)
           adversarial == Drop(yb.inputs, s)
           adversarial_targets == Drop(yb.targets, s)
           m == ModelEval(mode)
       IN  /\ batch' = yb
           /\ inputs' = yb.inputs
           /\ targets' = yb.targets
           /\ split' = s
           /\ frac' = EffectiveFraction(s, n)
           /\ mode' = m
           /\ calls' = <<Call("model.eval", m, 0),
                         Call("objective.set", m, Len(adversarial_targets)),
                         Call("attack.run", m, Len(adversarial))>>
           /\ adversarial_inputs' =
                Perturb(adversarial, [i \in 1..Len(adversarial) |-> attack])
  /\ yielded' = yielded + 1
  /\ pc' = "train_forward"
  /\ UNCHANGED <<persistent, op, epoch, ncalls, entry, writer, batches, b, logits,
                 clean_loss, adversarial_loss, loss, cl_losses, losses, successes,
                 attacked>>

\* lines 110-144: recombine, forward pass, losses, accumulators
TrainBatchForward ==
  /\ pc = "train_forward"
  /\ LET combined == Recombine(Take(inputs, split), adversarial_inputs, Len(inputs))
         nadv == Len(adversarial_inputs)
         m == ModelTrain(mode)
     IN  /\ inputs' = combined
         /\ mode' = m
         /\ calls' = calls \o <<Call("model.train", m, 0),
                                Call("optimizer.zero_grad", m, 0),
                                Call("model.forward", m, Len(combined))>>
         /\ \E out \in Outputs(model, combined) :
              LET clean_logits == Take(out, split)
                  adversarial_logits == Drop(out, split)
                  clean_targets == Take(targets, split)
                  adversarial_targets == Drop(targets, split)
                  al == ClassificationLoss(adversarial_logits, adversarial_targets)
                  cl == IF nadv < Len(combined)
                        THEN ClassificationLoss(clean_logits, clean_targets)
                        ELSE <<0, 1>>
              IN  /\ logits' = out
                  /\ adversarial_loss' = al
                  /\ clean_loss' = cl
                  /\ loss' = BackwardLoss(nadv, Len(combined), frac, cl, al)
                  /\ cl_losses' =
                       Concatenate(cl_losses, ExampleLosses(clean_logits, clean_targets))
                  /\ successes' =
                       Concatenate(successes, Success(adversarial_targets, adversarial_logits))
                  /\ losses' =
                       Concatenate(losses, ExampleLosses(adversarial_logits, adversarial_targets))
  /\ pc' = "train_backward"
  /\ UNCHANGED <<persistent, control_but_pc, writer, batches, b, batch, targets, split,
                 frac, adversarial_inputs, yielded, attacked>>

\* lines 146-191: backward, optimizer step, the epoch's writes after the
\* last batch, b += 1
TrainBatchBackward ==
  /\ pc = "train_backward"
  /\ calls' = calls \o <<Call("loss.backward", mode, 0), Call("optimizer.step", mode, 0)>>
  /\ writer' = IF b = batches - 1
               THEN writer \o TrainWrites(Len(adversarial_inputs), Len(inputs), epoch)
               ELSE writer
  /\ b' = b + 1
  /\ pc' = "train_loop"
  /\ UNCHANGED <<persistent, control_but_pc, mode, batches, batch, inputs, targets,
                 split, frac, adversarial_inputs, logits, clean_loss, adversarial_loss,
                 loss, cl_losses, losses, successes, yielded, attacked>>

\* the training loader is exhausted: train() returns, to the caller or to
\* step() at line 264
TrainReturn ==
  /\ pc = "train_loop"
  /\ b >= batches
  /\ IF op = "step"
     THEN /\ TestEntry
          /\ UNCHANGED <<op, epoch, ncalls, entry>>
     ELSE /\ Return
          /\ UNCHANGED <<persistent, control_but_pc, mode, writer>>

\* lines 214-237: one batch of the adversarial test pass
TestBatch ==
  /\ pc = "test_loop"
  /\ yielded < batches
  /\ ~CapReached(b, max_batches)
  /\ \E yb \in Yields(testset) :
       LET perturbed == Perturb(yb.inputs, [i \in 1..Len(yb.inputs) |-> attack])
       IN  /\ batch' = yb
           /\ inputs' = perturbed
           /\ targets' = yb.targets
           /\ adversarial_inputs' = perturbed
           /\ calls' = <<Call("objective.set", mode, Len(yb.targets)),
                         Call("attack.run", mode, Len(yb.inputs)),
                         Call("model.forward", mode, Len(perturbed)),
                         Call("attack.norm", mode, Len(perturbed))>>
           /\ \E out \in Outputs(model, perturbed) :
                /\ logits' = out
                /\ losses' = Concatenate(losses, ExampleLosses(out, yb.targets))
                /\ successes' = Concatenate(successes, Success(yb.targets, out))
  /\ attacked' = Append(attacked, yielded)
  /\ yielded' = yielded + 1
  /\ b' = b + 1
  /\ pc' = "test_loop"
  /\ UNCHANGED <<persistent, control_but_pc, mode, writer, batches, split, frac,
                 clean_loss, adversarial_loss, loss, cl_losses>>

\* lines 214-216: the test loader is exhausted, or it yields a batch and the
\* cap breaks the loop
TestExit ==
  /\ pc = "test_loop"
  /\ \/ yielded >= batches /\ UNCHANGED yielded
     \/ yielded < batches /\ CapReached(b, max_batches) /\ yielded' = yielded + 1
  /\ pc' = "test_log"
  /\ UNCHANGED <<persistent, control_but_pc, mode, writer, batches, b, batch, inputs,
                 targets, split, frac, adversarial_inputs, logits, clean_loss,
                 adversarial_loss, loss, cl_losses, losses, successes, calls, attacked>>

\* lines 239-245: the means of the accumulators are written; numpy.mean of
\* an accumulator that is still None raises, and the call is abandoned
TestLog ==
  /\ pc = "test_log"
  /\ IF losses.none
     THEN /\ pc' = "raised"
          /\ UNCHANGED <<writer, locals>>
     ELSE /\ writer' = writer \o TestWrites(epoch + 1)
          /\ Return
  /\ UNCHANGED <<persistent, control_but_pc, mode>>

Next ==
  \/ CallTrain
  \/ CallTest
  \/ CallStep
  \/ TrainBatchAttack
  \/ TrainBatchForward
  \/ TrainBatchBackward
  \/ TrainReturn
  \/ TestBatch
  \/ TestExit
  \/ TestLog

Spec == Init /\ [][Next]_vars

\* the trainers whose fraction is written as a decimal: 1/4, 1/2, 4/5, 1
InitDecimal == InitWith({q \in Requests : q.exp = 0})
SpecDecimal == InitDecimal /\ [][Next]_vars

\* the trainer whose fraction is 2^-54
InitTiny == InitWith({q \in Requests : q.exp # 0})
SpecTiny == InitTiny /\ [][Next]_vars

\* ------------------------------------------------------------------------
\* SpecSuccess: classifiers of 2..MaxClasses classes that may answer any
\* logits in 0..MaxLogit on a perturbed input, and loaders with any labels.
\* ------------------------------------------------------------------------
LogitVectors(k) == [1..k -> 0..MaxLogit]

InitSuccess ==
  \E k \in 2..MaxClasses :
    Constructed([num |-> 1, den |-> 2, exp |-> 0],
                Loader({1}, {1, 2}, 0..(k - 1)), Loader({1}, {1}, 0..(k - 1)),
                [clean |-> {[j \in 1..k |-> 0]}, perturbed |-> LogitVectors(k)], 1)

SpecSuccess == InitSuccess /\ [][Next]_vars

\* ------------------------------------------------------------------------
\* SpecScenario: one training batch of 10 examples, fraction 0.5, an attack
\* that returns the zero perturbation, and a classifier with fixed weights
\* whose per-example loss on the (unperturbed) inputs is 0 or 1.
\* ------------------------------------------------------------------------
InitScenario ==
  Constructed([num |-> 1, den |-> 2, exp |-> 0],
              Loader({1}, {10}, {0}), Loader({1}, {1}, {0}),
              [clean |-> {<<0, 0>>, <<0, 1>>}, perturbed |-> {<<0, 1>>}], 0)

SpecScenario == InitScenario /\ [][Next]_vars

\* ------------------------------------------------------------------------
\* Properties
\* ------------------------------------------------------------------------

\* the size of the batch the loop is working on
N == Len(batch.inputs)

InTrain == pc \in {"train_loop", "train_forward", "train_backward"}
\* the batch has been split (and attacked); it has been fed forward
Attacked == pc \in {"train_forward", "train_backward"}
Forwarded == pc = "train_backward"
\* train() has left its loop
TrainDone == pc = "train_loop" /\ b >= batches

\* what the current (or last) call of the caller has written
Written == SubSeq(writer, entry + 1, Len(writer))
Count(w, kind, tag) == Cardinality({i \in 1..Len(w) : w[i].kind = kind /\ w[i].tag = tag})

CleanScalarTags == {"train/loss", "train/error", "train/confidence"}
AdversarialScalarTags ==
  {"train/adversarial_success", "train/adversarial_loss", "train/adversarial_error",
   "train/adversarial_confidence"}
TrainScalarTags == CleanScalarTags \cup AdversarialScalarTags
TrainImageTags == {"train/images", "train/adversarial_images"}

\* the requested fraction f = num / (den * 2^exp) as a number: floor((1-f)*n)
\* computed on the integers, n - ceil(f*n)
CeilDiv(p, q) == (p + q - 1) \div q
\* ceil(p / 2^e) for 0 <= p < 2^30
CeilDivPow2(p, e) == IF e >= 30 THEN (IF p > 0 THEN 1 ELSE 0) ELSE CeilDiv(p, 2 ^ e)
ExactSplit(r, n) == n - CeilDivPow2(CeilDiv(r.num * n, r.den), r.exp)

IsOne(r) == r.num = r.den /\ r.exp = 0

Min(p, q) == IF p < q THEN p ELSE q

\* --- C1 ---------------------------------------------------------------
\* C1: in train(), for every batch size N >= 1 and requested fraction f in
\* (0, 1], split = floor((1-f)*N); the clean partition is the prefix
\* [0, split) and the adversarial partition the suffix [split, N); the
\* batch fed to the forward pass has N examples, the i-th being the i-th
\* original example, and the targets still the original targets.
C1_SplitIsFloor ==
  /\ Attacked =>
       /\ split = ExactSplit(request, N)
       /\ Len(adversarial_inputs) = N - split
       /\ \A i \in 1..Len(adversarial_inputs) : adversarial_inputs[i].x = split + i
  /\ Forwarded =>
       /\ Len(inputs) = N
       /\ \A i \in 1..Len(inputs) :
            inputs[i].x = i /\ (inputs[i].delta # 0 <=> i > split)
       /\ targets = batch.targets

\* the fraction 4/5 and a batch of 5: split is 0, and floor(0.2 * 5) is 1
C1_Witness ==
  /\ Attacked
  /\ request = [num |-> 4, den |-> 5, exp |-> 0]
  /\ N = 5
  /\ split = 0

\* --- C2 ---------------------------------------------------------------
\* C2: with f = 1 the loss handed to backward() is the adversarial loss in
\* every batch, nothing is ever written under train/loss, train/error,
\* train/confidence or train/images, and a train() over at least one batch
\* has written the four train/adversarial_* scalars when it leaves its loop.
C2_AllAdversarial ==
  IsOne(request) =>
    /\ Forwarded => loss = adversarial_loss /\ loss[2] # 0
    /\ \A i \in 1..Len(writer) :
         writer[i].tag \notin (CleanScalarTags \cup {"train/images"})
    /\ (TrainDone /\ batches >= 1) =>
         \A t \in AdversarialScalarTags : Count(Written, "add_scalar", t) = 1

C2_Witness ==
  /\ IsOne(request)
  /\ TrainDone
  /\ batches = 2
  /\ N > 1
  /\ Count(Written, "add_scalar", "train/adversarial_loss") = 1

\* --- C4 ---------------------------------------------------------------
\* C4: test() attacks exactly the first min(n, 10) batches of a test source
\* of n batches, in source order, and max_batches stays 10.
C4_TestCap ==
  /\ max_batches = 10
  /\ pc \in {"test_loop", "test_log"} =>
       /\ Len(attacked) = b
       /\ b <= 10
       /\ \A i \in 1..Len(attacked) : attacked[i] = i - 1
  /\ pc = "test_log" => Len(attacked) = Min(batches, 10)

C4_Witness ==
  /\ pc = "test_log"
  /\ batches = 11
  /\ Len(attacked) = 10
  /\ ncalls = 2

\* --- C7 ---------------------------------------------------------------
\* C7: when both partitions are non-empty the loss handed to backward() is
\* (split/N) * clean_loss + ((N - split)/N) * adversarial_loss.
C7_WeightsFollowPartitions ==
  (Forwarded /\ 0 < split /\ split < N) =>
    RatEq(loss, RatAdd(RatMul(<<split, N>>, clean_loss),
                       RatMul(<<N - split, N>>, adversarial_loss)))

\* the fraction 1/4 and a batch of 4: three clean examples, one adversarial
C7_Witness ==
  /\ Forwarded
  /\ request = [num |-> 1, den |-> 4, exp |-> 0]
  /\ N = 4
  /\ split = 3
  /\ RatEq(loss, RatAdd(RatMul(<<1, 4>>, clean_loss), RatMul(<<3, 4>>, adversarial_loss)))

\* --- C8 ---------------------------------------------------------------
\* C8: a train() over B >= 1 batches writes no train/* scalar before the
\* optimizer step of its last batch, and after it each of the four
\* train/adversarial_* scalars exactly once and, when some batch of the
\* epoch contributed clean examples, each of train/loss, train/error and
\* train/confidence exactly once.
C8_EveryAccumulatedMetric ==
  /\ (InTrain /\ ~TrainDone) =>
       \A i \in 1..Len(Written) : Written[i].tag \notin TrainScalarTags
  /\ (TrainDone /\ batches >= 1) =>
       /\ \A t \in AdversarialScalarTags : Count(Written, "add_scalar", t) = 1
       /\ cl_losses.values # <<>> =>
            \A t \in CleanScalarTags : Count(Written, "add_scalar", t) = 1
       /\ cl_losses.values = <<>> =>
            \A t \in CleanScalarTags : Count(Written, "add_scalar", t) = 0

\* clean examples were accumulated and the last batch had none
C8_Witness ==
  /\ TrainDone
  /\ batches = 2
  /\ cl_losses.values # <<>>
  /\ split = 0
  /\ Count(Written, "add_scalar", "train/loss") = 0

\* --- C9 ---------------------------------------------------------------
\* C9: each iteration of train() calls, in this order, model.eval,
\* objective.set, attack.run (both on the adversarial sub-batch),
\* model.train, optimizer.zero_grad, one forward pass over the whole batch,
\* loss.backward and optimizer.step (once); the model is in evaluation mode
\* at attack.run and in training mode at the forward pass; scheduler.step
\* is never called.
TrainOrder ==
  <<"model.eval", "objective.set", "attack.run", "model.train", "optimizer.zero_grad",
    "model.forward", "loss.backward", "optimizer.step">>

C9_CallOrder ==
  (InTrain /\ (pc = "train_loop" => b > 0)) =>
    /\ Len(calls) = (CASE pc = "train_forward" -> 3
                       [] pc = "train_backward" -> 6
                       [] OTHER -> 8)
    /\ \A i \in 1..Len(calls) :
         /\ calls[i].op = TrainOrder[i]
         /\ calls[i].op \in {"objective.set", "attack.run"} => calls[i].n = N - split
         /\ calls[i].op = "attack.run" => calls[i].mode = "eval"
         /\ calls[i].op = "model.forward" => calls[i].mode = "train" /\ calls[i].n = N
         /\ calls[i].op # "scheduler.step"

C9_Witness ==
  /\ pc = "train_loop"
  /\ b = 2
  /\ Len(calls) = 8
  /\ 0 < split
  /\ split < N

\* --- C10 --------------------------------------------------------------
\* C10: for 0 < f <= 1 every training batch has 0 <= split < N, so the
\* attack always gets at least one example; the clean partition is empty
\* exactly when (1-f)*N < 1, and then the loss handed to backward() is the
\* adversarial loss alone.
C10_AdversarialNeverEmpty ==
  /\ Attacked =>
       /\ 0 <= split
       /\ split < N
       /\ Len(adversarial_inputs) >= 1
       /\ (split = 0 <=> ExactSplit(request, N) = 0)
  /\ (Forwarded /\ split = 0) => loss = adversarial_loss

\* the fraction 2^-54 passes the constructor's checks and leaves the
\* attack an empty batch
C10_Witness ==
  /\ Attacked
  /\ request = [num |-> 1, den |-> 1, exp |-> 54]
  /\ split = N
  /\ adversarial_inputs = <<>>

\* --- C3 ---------------------------------------------------------------
\* C3: in train() and in test() the success value accumulated for an
\* adversarial example is 0 or 1, whatever the number of classes: 1 when
\* the arg max of its logits differs from its target and 0 when they agree.
PredictedClass(l) ==
  (CHOOSE j \in DOMAIN l :
     l[j] = Largest(l) /\ \A k \in DOMAIN l : k < j => l[k] # Largest(l)) - 1

\* the examples of the current batch that were attacked: all of them in
\* test(), those after the split in train()
FirstAttacked == IF pc = "train_backward" THEN split + 1 ELSE 1
Accumulated == pc = "train_backward" \/ (pc = "test_loop" /\ b > 0)

\* the success value accumulated for example i of the current batch
SuccessOf(i) ==
  successes.values[Len(successes.values) - Len(logits) + i]

C3_SuccessIsIndicator ==
  /\ \A i \in 1..Len(successes.values) : successes.values[i] \in {0, 1}
  /\ Accumulated =>
       /\ Len(successes.values) >= Len(logits) - FirstAttacked + 1
       /\ \A i \in FirstAttacked..Len(logits) :
            /\ SuccessOf(i) = 1 <=> PredictedClass(logits[i]) # targets[i]
            /\ SuccessOf(i) = 0 <=> PredictedClass(logits[i]) = targets[i]

\* three classes, the target 0 and the prediction 2, after a clean example
C3_Witness ==
  /\ pc = "train_backward"
  /\ split = 1
  /\ N = 2
  /\ targets[2] = 0
  /\ PredictedClass(logits[2]) = 2
  /\ SuccessOf(2) = 1

\* --- C5 ---------------------------------------------------------------
\* the model's loss on the whole batch it was fed
FullBatchLoss == ClassificationLoss(logits, targets)
Unperturbed == inputs = batch.inputs

\* C5 as stated: batch of 10, fraction 0.5 (split 5), fixed weights, zero
\* perturbation: the clean loss equals the adversarial loss, both equal the
\* model's loss on the unperturbed batch, and so does the loss handed to
\* backward().
C5_AllLossesEqual ==
  Forwarded =>
    /\ N = 10 /\ split = 5 /\ Unperturbed
    /\ RatEq(clean_loss, adversarial_loss)
    /\ RatEq(clean_loss, FullBatchLoss)
    /\ RatEq(loss, FullBatchLoss)

\* C5 as amended: the loss handed to backward() equals the model's loss on
\* the unperturbed batch, which is the average of the clean loss (the mean
\* over examples 1-5) and the adversarial loss (the mean over examples
\* 6-10).
C5_BackwardIsFullBatchLoss ==
  Forwarded =>
    /\ N = 10 /\ split = 5 /\ Unperturbed
    /\ RatEq(loss, FullBatchLoss)
    /\ RatEq(loss, RatMul(<<1, 2>>, RatAdd(clean_loss, adversarial_loss)))
    /\ clean_loss = Mean(ExampleLosses(Take(logits, 5), Take(targets, 5)))
    /\ adversarial_loss = Mean(ExampleLosses(Drop(logits, 5), Drop(targets, 5)))

\* the two halves of the batch differ in loss
C5_Witness ==
  /\ Forwarded
  /\ N = 10
  /\ split = 5
  /\ Unperturbed
  /\ RatEq(clean_loss, <<1, 5>>)
  /\ RatEq(adversarial_loss, <<4, 5>>)
  /\ RatEq(loss, <<1, 2>>)

\* --- C6 ---------------------------------------------------------------
ConfigOnce ==
  /\ Len(writer) >= 3
  /\ \A i \in 1..Len(writer) : writer[i].kind = "add_text" <=> i <= 3
  /\ {writer[i].tag : i \in 1..3} = {"config/attack", "config/objective", "config/fraction"}

\* C6 as stated: the three config notes are written once, at construction,
\* before any scalar or image; within a step(epoch) call every add_scalar
\* (train/* and test/adversarial_*) comes before every add_images.
C6_ScalarsBeforeImages ==
  /\ ConfigOnce
  /\ op = "step" =>
       \A i, j \in 1..Len(Written) :
         (Written[i].kind = "add_scalar" /\ Written[j].kind = "add_images") => i < j

\* C6 as amended: the config notes as stated; within a train(epoch) call
\* every train/* scalar comes before every add_images; the
\* test/adversarial_* scalars of a step(epoch) call come after the images
\* of its training pass.
C6_TrainScalarsThenImagesThenTestScalars ==
  /\ ConfigOnce
  /\ \A i, j \in 1..Len(Written) :
       /\ (Written[i].tag \in TrainScalarTags /\ Written[j].kind = "add_images") => i < j
       /\ (Written[i].kind = "add_images" /\ Written[j].kind = "add_scalar"
             /\ Written[j].tag \notin TrainScalarTags) => i < j
  /\ \A i \in 1..Len(Written) :
       /\ Written[i].tag \in TrainScalarTags => Written[i].kind = "add_scalar"
       /\ Written[i].kind = "add_images" => Written[i].tag \in TrainImageTags

C6_Witness ==
  /\ op = "step"
  /\ pc = "idle"
  /\ Count(Written, "add_scalar", "train/loss") = 1
  /\ Count(Written, "add_images", "train/images") = 1
  /\ Count(Written, "add_scalar", "test/adversarial_loss") = 1
====
